---------------------------- MODULE Spec2Model ----------------------------
(***************************************************************************)
(* Map widgets of gopro_overlay (src/gopro_overlay/widgets_map.py):        *)
(* PerceptibleMovementCheck, MovingMap and JourneyMap as state machines.   *)
(*                                                                         *)
(* Conventions                                                             *)
(*  - Python's None is the empty tuple None, a present value v is the      *)
(*    one-element tuple Some(v).                                           *)
(*  - Geographic coordinates are integers in a unit chosen so that one     *)
(*    pixel at zoom 18 spans one unit of longitude.                        *)
(*  - Pixel coordinates that the code computes with true division by 2     *)
(*    (size / 2, hypotenuse / 2) are kept doubled ("x2") so they stay      *)
(*    integers: a doubled pixel p stands for the pixel p / 2.              *)
(***************************************************************************)
EXTENDS Integers, Sequences, FiniteSets, TLC

VARIABLES
    movingMap,      \* the MovingMap object: its fields after __init__, incl. perceptible and cached
    mmLast,         \* what the latest MovingMap.draw did (None before the first draw)
    mmHist,         \* counters over the MovingMap draws so far
    check,          \* a stand-alone PerceptibleMovementCheck object
    checkLast,      \* the latest call of check.moved: arguments, state before, result
    checkHist,      \* counters over the calls of check.moved so far
    journeyMap,     \* the JourneyMap object
    jmLast,         \* what the latest JourneyMap.draw did
    jmHist,         \* counters over the JourneyMap draws so far
    construct,      \* a MovingMap constructor call: its arguments and, once it ran, the object
    raster,         \* a rotation and finishing of one raster: its arguments and the raster made
    workers         \* two workers drawing concurrently: their MovingMaps and where each one is

vars == <<movingMap, mmLast, mmHist, check, checkLast, checkHist, journeyMap, jmLast, jmHist, construct,
          raster, workers>>

mmVars == <<movingMap, mmLast, mmHist>>
checkVars == <<check, checkLast, checkHist>>
jmVars == <<journeyMap, jmLast, jmHist>>

---------------------------------------------------------------------------
(* Bounds of the model *)

MaxLon == 2

MaxLat == 1

MaxSize == 12

MaxDraws == 3

MaxCalls == 3

MaxRoute == 3

MaxJourneyDraws == 2

\* the side of the JourneyMap's raster, in pixels
JourneySize == 1

\* the largest zoom the map provider offers
MaxProviderZoom == 19

---------------------------------------------------------------------------
(* Values *)

None == <<>>

Some(v) == <<v>>

Get(o) == o[1]

Abs(x) == IF x < 0 THEN -x ELSE x

Lons == 0..MaxLon

Lats == 0..MaxLat

\* A position as the position source returns it: lon and lat may each be None.
Locations == [lon : {None} \cup {Some(x) : x \in Lons}, lat : {None} \cup {Some(y) : y \in Lats}]

\* line 174: location.lon is not None and location.lat is not None
HasFix(location) == location.lon # None /\ location.lat # None

FixedLocations == {l \in Locations : HasFix(l)}

\* The heading source: None, or a quantity in degrees.
Headings == {None, Some(-10), Some(0), Some(90)}

---------------------------------------------------------------------------
(* geotiler.Map, the external map view provider, as far as the widgets use it *)

\* geotiler.Map(center=..., zoom=..., size=...); a map keeps its centre doubled, because the
\* centre of an extent (below) may lie halfway between two units
MapOfCenter(center, zoom, size) == [center |-> <<2 * center[1], 2 * center[2]>>, zoom |-> zoom, size |-> size]

RECURSIVE Pow2(_)
Pow2(n) == IF n <= 0 THEN 1 ELSE 2 * Pow2(n - 1)

\* Units of longitude spanned by one pixel: halves with every zoom level, 1 at zoom 18.
LonUnitsPerPixel(zoom) == Pow2(18 - zoom)

\* Units of latitude spanned by one pixel: Mercator stretches high latitudes, so in the
\* upper half of the modelled latitudes a pixel spans less latitude (never less than 1).
LatUnitsPerPixel(zoom, lat) ==
    IF 2 * lat > MaxLat /\ LonUnitsPerPixel(zoom) > 1
    THEN LonUnitsPerPixel(zoom) \div 2
    ELSE LonUnitsPerPixel(zoom)

\* map.geocode(pixel): the pixel (size/2, size/2) is the centre, x grows with the longitude
\* and y against the latitude. px2 is a doubled pixel.
geocode(map, px2) ==
    << (map.center[1] + (px2[1] - map.size[1]) * LonUnitsPerPixel(map.zoom)) \div 2,
       (map.center[2] - (px2[2] - map.size[2]) * LatUnitsPerPixel(map.zoom, map.center[2] \div 2)) \div 2 >>

\* map.rev_geocode((lon, lat)): the doubled pixel of a position (the inverse of geocode,
\* truncated to a doubled pixel)
rev_geocode(map, lonlat) ==
    << map.size[1] + ((2 * lonlat[1] - map.center[1]) * Pow2(map.zoom - 18)) \div LonUnitsPerPixel(map.zoom),
       map.size[2] - ((2 * lonlat[2] - map.center[2]) * Pow2(map.zoom - 18))
                        \div LatUnitsPerPixel(map.zoom, map.center[2] \div 2) >>

\* The largest zoom z in 0..hi at which span units fit into size pixels
\* (span * 2^(z-18) <= size); every span fits at zoom 0 in this model
RECURSIVE FittingZoom(_, _, _)
FittingZoom(span, size, hi) ==
    IF hi = 0 \/ span * Pow2(hi - 18) <= size * Pow2(18 - hi) THEN hi ELSE FittingZoom(span, size, hi - 1)

\* geotiler.Map(extent=(min lon, min lat, max lon, max lat), size=...): centred on the
\* extent, at the largest zoom of the provider that shows the whole extent
MapOfExtent(extent, size) ==
    [center |-> <<extent[1] + extent[3], extent[2] + extent[4]>>,
     zoom |-> FittingZoom(IF extent[3] - extent[1] > extent[4] - extent[2]
                          THEN extent[3] - extent[1] ELSE extent[4] - extent[2],
                          size[1], MaxProviderZoom),
     size |-> size]

---------------------------------------------------------------------------
(* PerceptibleMovementCheck *)

\* PerceptibleMovementCheck.__init__
PerceptibleMovementCheckInit == [last_location |-> None]

\* lines 16-17 and 19: abs(location_of_one_pixel_away[0] - location_of_centre_pixel[0])
x_resolution(map) ==
    Abs(geocode(map, <<map.size[1] + 2, map.size[2] + 2>>)[1] - geocode(map, <<map.size[1], map.size[2]>>)[1])

\* lines 16-17 and 20
y_resolution(map) ==
    Abs(geocode(map, <<map.size[1] + 2, map.size[2] + 2>>)[2] - geocode(map, <<map.size[1], map.size[2]>>)[2])

\* (mutant) the comparison of line 26 with <= in place of <
ImperceptibleOrEqual(last, map, location) ==
    /\ Abs(Get(last.lon) - Get(location.lon)) <= x_resolution(map)
    /\ Abs(Get(last.lat) - Get(location.lat)) <= y_resolution(map)

\* (mutant) the comparison of line 26 on the longitude alone
ImperceptibleLonOnly(last, map, location) ==
    Abs(Get(last.lon) - Get(location.lon)) < x_resolution(map)

\* lines 23-26: the move is imperceptible
Imperceptible(last, map, location) ==
    /\ Abs(Get(last.lon) - Get(location.lon)) < x_resolution(map)
    /\ Abs(Get(last.lat) - Get(location.lat)) < y_resolution(map)

\* (mutant) moved without the early return of line 27
movedAlways(self, map, location) ==
    [ret |-> TRUE, self |-> [self EXCEPT !.last_location = Some(location)]]

\* (mutant) moved without the assignment of line 29
movedNoStore(self, map, location) ==
    IF self.last_location # None /\ Imperceptible(Get(self.last_location), map, location)
    THEN [ret |-> FALSE, self |-> self]
    ELSE [ret |-> TRUE, self |-> self]

\* (mutant) moved storing the position it was given before the early return of line 27 too
movedStoresSeen(self, map, location) ==
    IF self.last_location # None /\ Imperceptible(Get(self.last_location), map, location)
    THEN [ret |-> FALSE, self |-> [self EXCEPT !.last_location = Some(location)]]
    ELSE [ret |-> TRUE, self |-> [self EXCEPT !.last_location = Some(location)]]

\* PerceptibleMovementCheck.moved(map, location): the returned value and the object afterwards
moved(self, map, location) ==
    IF self.last_location # None /\ Imperceptible(Get(self.last_location), map, location)
    THEN [ret |-> FALSE, self |-> self]
    ELSE [ret |-> TRUE, self |-> [self EXCEPT !.last_location = Some(location)]]

---------------------------------------------------------------------------
(* Rasters (PIL images) and the drawing operations the widgets use *)

\* An opacity is a rational num/den in [0, 1]; the constructors' default is 0.7.
DefaultOpacity == [num |-> 7, den |-> 10]

Opacities == {DefaultOpacity}

\* corner_radius: None, or a number of pixels (0 is falsy in Python, like None)
CornerRadii == {None, Some(0), Some(2)}

\* self.renderer(map): the raster the external renderer returns when it does not fail
renderer(map) ==
    [id |-> 0, view |-> map, size |-> map.size, line |-> None, marker |-> None, angle |-> None,
     crop |-> None, alpha |-> None, outline |-> None]

\* draw.line(plots, ...) on the image draw was made for
draw_line(image, plots) == [image EXCEPT !.line = Some(plots)]

\* image.copy(): the same pixels in a new object
copy(image) == [image EXCEPT !.id = image.id + 1]

\* draw_marker(draw, position, size): an ellipse around position, on the image draw was made for
draw_marker(image, position, size) == [image EXCEPT !.marker = Some([at |-> position, size |-> size])]

\* (mutant) line 143 without its else
AngleNoWrap(azi) == 0 + azi

\* line 143: angle = 0 + azi if azi >= 0 else 360 + azi
Angle(azi) == IF azi >= 0 THEN 0 + azi ELSE 360 + azi

\* lines 140-144: azimuth is falsy when it is None or has magnitude 0
Rotated(image, azimuth, rotate) ==
    IF azimuth # None /\ Get(azimuth) # 0 /\ rotate
    THEN [image EXCEPT !.angle = Some(Angle(Get(azimuth)))]
    ELSE image

\* map_image.crop(self.bounds); bounds are doubled pixels
Cropped(image, bounds) ==
    [image EXCEPT !.crop = Some(bounds), !.size = <<(bounds[3] - bounds[1]) \div 2, (bounds[4] - bounds[2]) \div 2>>]

\* (mutant) round(255 * opacity), halves rounded up
AlphaRounded(opacity) == (2 * 255 * opacity.num + opacity.den) \div (2 * opacity.den)

\* int(255 * opacity), int(opacity * 255)
AlphaOf(opacity) == (255 * opacity.num) \div opacity.den

\* rounded_corners(frame, radius, opacity): the mask is 0 outside the rounded rectangle
rounded_corners(frame, radius, opacity) ==
    [frame EXCEPT !.alpha = Some([inside |-> AlphaOf(opacity), corners |-> 0])]

\* lines 71-85 and 148-168: rounded mask and outline, or plain border and uniform alpha
Finished(image, size, corner_radius, opacity) ==
    IF corner_radius # None /\ Get(corner_radius) # 0
    THEN [rounded_corners(image, Get(corner_radius), opacity) EXCEPT
            !.outline = Some([kind |-> "rounded_rectangle", radius |-> Get(corner_radius), to |-> size - 1])]
    ELSE [image EXCEPT
            !.outline = Some([kind |-> "line", radius |-> 0, to |-> size - 1]),
            !.alpha = Some([inside |-> AlphaOf(opacity), corners |-> AlphaOf(opacity)])]

---------------------------------------------------------------------------
(* MovingMap *)

\* The largest k in lo..hi with k * k <= n, by bisection; mid * mid <= n is written
\* mid <= n \div mid (mid >= 1) to stay within 32-bit arithmetic
RECURSIVE SqrtBetween(_, _, _)
SqrtBetween(n, lo, hi) ==
    IF lo >= hi THEN lo
    ELSE LET mid == (lo + hi + 1) \div 2
         IN  IF mid <= n \div mid THEN SqrtBetween(n, mid, hi) ELSE SqrtBetween(n, lo, mid - 1)

\* int(math.sqrt(n)) for n >= 0: the square root truncated to an integer
IntSqrt(n) == SqrtBetween(n, 0, n)

\* line 122: int(math.sqrt((self.size ** 2) * 2))
Hypotenuse(size) == IntSqrt((size * size) * 2)

\* lines 124-131: half_width_height -/+ size / 2, four times; doubled pixels
Bounds(hypotenuse, size) == <<hypotenuse - size, hypotenuse - size, hypotenuse + size, hypotenuse + size>>

\* line 112: zoom=17
DefaultZoom == 17

\* MovingMap.__init__ (half_width_height is doubled)
MovingMapInit(rotate, size, zoom, corner_radius, opacity) ==
    [rotate |-> rotate, size |-> size, zoom |-> zoom, corner_radius |-> corner_radius,
     opacity |-> opacity,
     hypotenuse |-> Hypotenuse(size),
     half_width_height |-> Hypotenuse(size),
     bounds |-> Bounds(Hypotenuse(size), size),
     perceptible |-> PerceptibleMovementCheckInit,
     cached |-> None]

\* (mutant) _redraw without the draw_marker of line 139
RedrawnUnmarked(self, map_image, azimuth) ==
    Finished(Cropped(Rotated(map_image, azimuth, self.rotate), self.bounds),
             self.size, self.corner_radius, self.opacity)

\* MovingMap._redraw(map) after the renderer returned map_image
Redrawn(self, map_image, azimuth) ==
    Finished(
        Cropped(
            Rotated(draw_marker(map_image, <<self.half_width_height, self.half_width_height>>, 6),
                    azimuth, self.rotate),
            self.bounds),
        self.size, self.corner_radius, self.opacity)

\* line 176: geotiler.Map(center=(location.lon, location.lat), zoom=self.zoom, size=(hypotenuse, hypotenuse))
MovingMapView(self, location) ==
    MapOfCenter(<<Get(location.lon), Get(location.lat)>>, self.zoom, <<self.hypotenuse, self.hypotenuse>>)

\* line 179: self.perceptible.moved(map, location)
MovingMapMoved(self, location) == moved(self.perceptible, MovingMapView(self, location), location)

\* What a draw did: the position it read, whether the movement check ran and what it
\* returned, whether the renderer and the heading source were called, what was pasted.
DrawRecord(location, ran, ret, rendered, failed, azimuthRead, pasteCalled, pasted) ==
    [location |-> location, checked |-> ran, moved |-> ret, rendered |-> rendered, failed |-> failed,
     azimuthRead |-> azimuthRead, pasteCalled |-> pasteCalled, pasted |-> pasted]

\* The counters after one more draw: how many draws, how many renderer calls, whether the
\* renderer ever failed, whether every draw so far read the same position
MMHistAfter(location, rendered, failed) ==
    [draws |-> mmHist.draws + 1,
     renders |-> mmHist.renders + (IF rendered THEN 1 ELSE 0),
     failed |-> mmHist.failed \/ failed,
     same |-> mmHist.same /\ (mmLast = None \/ Get(mmLast).location = location)]

\* (mutant) draw with a fix that redraws whatever the movement check returned
MovingMapDrawFixAlways(location) ==
    LET map == MovingMapView(movingMap, location)
        chk == MovingMapMoved(movingMap, location)
        checked == [movingMap EXCEPT !.perceptible = chk.self]
    IN  \E azimuth \in Headings :
        LET crop == Redrawn(checked, renderer(map), azimuth)
        IN  /\ movingMap' = [checked EXCEPT !.cached = Some(crop)]
            /\ mmLast' = Some(DrawRecord(location, TRUE, chk.ret, TRUE, FALSE, TRUE, TRUE, Some(crop)))
            /\ mmHist' = MMHistAfter(location, TRUE, FALSE)

\* MovingMap.draw, lines 176-182: the position has a fix. The renderer's answer and the
\* heading are inputs of the calls that ask for them: the renderer is called in _redraw
\* (line 136) and may raise; self.azimuth() is called after it (line 140).
MovingMapDrawFix(location) ==
    LET map == MovingMapView(movingMap, location)
        chk == MovingMapMoved(movingMap, location)
        checked == [movingMap EXCEPT !.perceptible = chk.self]
    IN  IF chk.ret
        THEN \E rendererOk \in BOOLEAN :
             IF rendererOk
             THEN \E azimuth \in Headings :
                  LET crop == Redrawn(checked, renderer(map), azimuth)
                  IN  /\ movingMap' = [checked EXCEPT !.cached = Some(crop)]
                      /\ mmLast' = Some(DrawRecord(location, TRUE, TRUE, TRUE, FALSE, TRUE, TRUE, Some(crop)))
                      /\ mmHist' = MMHistAfter(location, TRUE, FALSE)
             ELSE \* the renderer raises: the exception leaves draw before line 180 assigns
                  /\ movingMap' = checked
                  /\ mmLast' = Some(DrawRecord(location, TRUE, TRUE, TRUE, TRUE, FALSE, FALSE, None))
                  /\ mmHist' = MMHistAfter(location, TRUE, TRUE)
        ELSE /\ movingMap' = checked
             /\ mmLast' = Some(DrawRecord(location, TRUE, FALSE, FALSE, FALSE, FALSE, TRUE, checked.cached))
             /\ mmHist' = MMHistAfter(location, FALSE, FALSE)

\* (mutant) the paste de-indented out of the if of line 174
MovingMapDrawNoFixPastes(location) ==
    /\ movingMap' = movingMap
    /\ mmLast' = Some(DrawRecord(location, FALSE, FALSE, FALSE, FALSE, FALSE, TRUE, movingMap.cached))
    /\ mmHist' = MMHistAfter(location, FALSE, FALSE)

\* MovingMap.draw when the condition of line 174 is false: nothing is done
MovingMapDrawNoFix(location) ==
    /\ movingMap' = movingMap
    /\ mmLast' = Some(DrawRecord(location, FALSE, FALSE, FALSE, FALSE, FALSE, FALSE, None))
    /\ mmHist' = MMHistAfter(location, FALSE, FALSE)

\* MovingMap.draw(image, draw) when self.location() returns location
MovingMapDraw(location) ==
    /\ mmHist.draws < MaxDraws
    /\ IF HasFix(location) THEN MovingMapDrawFix(location) ELSE MovingMapDrawNoFix(location)
    /\ UNCHANGED <<checkVars, jmVars, construct, raster, workers>>

\* line 112: size=256
DefaultSize == 256

MMHistInit == [draws |-> 0, renders |-> 0, failed |-> FALSE, same |-> TRUE]

MovingMapSpecInit ==
    /\ \E rotate \in BOOLEAN, corner_radius \in CornerRadii, opacity \in Opacities :
          movingMap = MovingMapInit(rotate, DefaultSize, DefaultZoom, corner_radius, opacity)
    /\ mmLast = None
    /\ mmHist = MMHistInit
    /\ check = None /\ checkLast = None /\ checkHist = None
    /\ journeyMap = None /\ jmLast = None /\ jmHist = None
    /\ construct = None /\ raster = None /\ workers = None

MovingMapDrawStep == \E location \in Locations : MovingMapDraw(location)

MovingMapNext == MovingMapDrawStep

\* A MovingMap with the default size, drawn up to MaxDraws times
Spec == MovingMapSpecInit /\ [][MovingMapNext]_vars

---------------------------------------------------------------------------
(* Constructing a MovingMap of any size *)

Sizes == 1..MaxSize

ConstructSpecInit ==
    /\ \E rotate \in BOOLEAN, size \in Sizes, corner_radius \in CornerRadii, opacity \in Opacities :
          construct = [rotate |-> rotate, size |-> size, corner_radius |-> corner_radius,
                       opacity |-> opacity, object |-> None]
    /\ movingMap = None /\ mmLast = None /\ mmHist = None
    /\ check = None /\ checkLast = None /\ checkHist = None
    /\ journeyMap = None /\ jmLast = None /\ jmHist = None
    /\ raster = None /\ workers = None

\* MovingMap(at, location, azimuth, renderer, rotate, size, zoom, corner_radius, opacity)
MovingMapConstruct ==
    /\ construct.object = None
    /\ construct' = [construct EXCEPT !.object =
          Some(MovingMapInit(construct.rotate, construct.size, DefaultZoom, construct.corner_radius, construct.opacity))]
    /\ UNCHANGED <<mmVars, checkVars, jmVars, raster, workers>>

ConstructNext == MovingMapConstruct

ConstructSpec == ConstructSpecInit /\ [][ConstructNext]_vars

---------------------------------------------------------------------------
(* A PerceptibleMovementCheck called directly, with any view *)

Zooms == {17, 18}

\* The views handed to moved: any centre, a zoom, the default raster size
Views ==
    {MapOfCenter(<<x, y>>, z, <<Hypotenuse(DefaultSize), Hypotenuse(DefaultSize)>>) :
        x \in Lons, y \in Lats, z \in Zooms}

MovementSpecInit ==
    /\ check = PerceptibleMovementCheckInit
    /\ checkLast = None
    /\ checkHist = [calls |-> 0, repeated |-> FALSE, accepted |-> None, crept |-> FALSE]
    /\ movingMap = None /\ mmLast = None /\ mmHist = None
    /\ journeyMap = None /\ jmLast = None /\ jmHist = None
    /\ construct = None /\ raster = None /\ workers = None

\* check.moved(map, location): the call's arguments, the object before it and the result
\* are kept in checkLast; repeated says the call had the arguments of the call before it,
\* accepted is the position of the latest call that returned True, crept says the call
\* before this one returned False and its position is within the resolution of this one's.
CheckMoved(map, location) ==
    /\ checkHist.calls < MaxCalls
    /\ LET r == moved(check, map, location)
       IN  /\ check' = r.self
           /\ checkLast' = Some([map |-> map, location |-> location, before |-> check, ret |-> r.ret])
           /\ checkHist' = [calls |-> checkHist.calls + 1,
                            repeated |-> /\ checkLast # None
                                         /\ Get(checkLast).map = map
                                         /\ Get(checkLast).location = location,
                            accepted |-> IF r.ret THEN Some(location) ELSE checkHist.accepted,
                            crept |-> /\ checkLast # None
                                      /\ ~Get(checkLast).ret
                                      /\ Imperceptible(Get(checkLast).location, map, location)]
    /\ UNCHANGED <<mmVars, jmVars, construct, raster, workers>>

CheckMovedStep == \E map \in Views, location \in FixedLocations : CheckMoved(map, location)

MovementNext == CheckMovedStep

MovementSpec == MovementSpecInit /\ [][MovementNext]_vars

---------------------------------------------------------------------------
(* Journey and the privacy zones (gopro_overlay.journey, gopro_overlay.privacy) *)

Min(S) == CHOOSE x \in S : \A y \in S : x <= y

Max(S) == CHOOSE x \in S : \A y \in S : x >= y

\* Journey() after timeseries.process(journey.accept): the visited positions in order, and
\* the bounding box (min point, max point) of a route that is not empty
JourneyOf(timeseries) ==
    [locations |-> timeseries,
     bounding_box |->
        << [lon |-> Some(Min({Get(timeseries[i].lon) : i \in DOMAIN timeseries})),
            lat |-> Some(Min({Get(timeseries[i].lat) : i \in DOMAIN timeseries}))],
           [lon |-> Some(Max({Get(timeseries[i].lon) : i \in DOMAIN timeseries})),
            lat |-> Some(Max({Get(timeseries[i].lat) : i \in DOMAIN timeseries}))] >>]

\* NoPrivacyZone(): encloses nothing. A zone is the set of the positions it encloses.
NoPrivacyZone == {}

\* privacy_zone.encloses(location)
encloses(privacy_zone, location) == location \in privacy_zone

---------------------------------------------------------------------------
(* JourneyMap *)

\* JourneyMap.__init__
JourneyMapInit(timeseries, size, corner_radius, opacity, privacy_zone) ==
    [timeseries |-> timeseries, privacy_zone |-> privacy_zone, corner_radius |-> corner_radius,
     opacity |-> opacity, size |-> size, map |-> None, image |-> None]

\* (mutant) _init_maybe without lines 58-59
NoClamp(map) == map

\* lines 58-59: if self.map.zoom > 18: self.map.zoom = 18
ClampedZoom(map) == IF map.zoom > 18 THEN [map EXCEPT !.zoom = 18] ELSE map

\* lines 54-59: the view of the journey's bounding box
JourneyView(self, journey) ==
    ClampedZoom(
        MapOfExtent(<<Get(journey.bounding_box[1].lon), Get(journey.bounding_box[1].lat),
                      Get(journey.bounding_box[2].lon), Get(journey.bounding_box[2].lat)>>,
                    <<self.size, self.size>>))

\* (mutant) the filter of line 63 without its "not"
KeptEnclosed(privacy_zone, locations) == SelectSeq(locations, LAMBDA l : encloses(privacy_zone, l))

\* line 63: for location in journey.locations if not self.privacy_zone.encloses(location)
Kept(privacy_zone, locations) == SelectSeq(locations, LAMBDA l : ~encloses(privacy_zone, l))

\* lines 61-64: the pixels of the positions the privacy zone does not enclose
Plots(map, locations, privacy_zone) ==
    [i \in 1..Len(Kept(privacy_zone, locations)) |->
        rev_geocode(map, <<Get(Kept(privacy_zone, locations)[i].lon), Get(Kept(privacy_zone, locations)[i].lat)>>)]

\* lines 66-87, the renderer having returned: the backdrop with the route and the finish
Backdrop(self, map, plots) ==
    Finished(draw_line(renderer(map), plots), self.size, self.corner_radius, self.opacity)

\* (mutant) _init_maybe without the test of line 49
InitAlways(self, rendererOk) ==
    LET journey == JourneyOf(self.timeseries)
        map == JourneyView(self, journey)
        plots == Plots(map, journey.locations, self.privacy_zone)
    IN  [self |-> [self EXCEPT !.map = Some(map), !.image = Some(Backdrop(self, map, plots))],
         folded |-> TRUE, rendered |-> TRUE, failed |-> FALSE]

\* JourneyMap._init_maybe(): the object afterwards, whether the timeseries was folded and
\* the renderer called, and whether the renderer raised (then line 87 is not reached, and
\* self.map keeps the view assigned at line 55)
InitMaybe(self, rendererOk) ==
    IF self.map = None
    THEN LET journey == JourneyOf(self.timeseries)
             map == JourneyView(self, journey)
             plots == Plots(map, journey.locations, self.privacy_zone)
         IN  IF rendererOk
             THEN [self |-> [self EXCEPT !.map = Some(map), !.image = Some(Backdrop(self, map, plots))],
                   folded |-> TRUE, rendered |-> TRUE, failed |-> FALSE]
             ELSE [self |-> [self EXCEPT !.map = Some(map)],
                   folded |-> TRUE, rendered |-> TRUE, failed |-> TRUE]
    ELSE [self |-> self, folded |-> FALSE, rendered |-> FALSE, failed |-> FALSE]

\* What a JourneyMap.draw did; raised names the call that raised ("" when none did)
JourneyDrawRecord(location, init, raised, markerDrawn, pasteCalled, pasted) ==
    [location |-> location, folded |-> init.folded, rendered |-> init.rendered, raised |-> raised,
     markerDrawn |-> markerDrawn, pasteCalled |-> pasteCalled, pasted |-> pasted]

JMHistAfter(init) ==
    [draws |-> jmHist.draws + 1,
     folds |-> jmHist.folds + (IF init.folded THEN 1 ELSE 0),
     renders |-> jmHist.renders + (IF init.rendered THEN 1 ELSE 0)]

\* JourneyMap.draw(image, draw) when self.location() returns location and the renderer,
\* if _init_maybe calls it, answers rendererOk
JourneyMapDraw(location, rendererOk) ==
    /\ jmHist.draws < MaxJourneyDraws
    /\ LET init == InitMaybe(journeyMap, rendererOk)
           self == init.self
       IN  /\ jmHist' = JMHistAfter(init)
           /\ IF init.failed
              THEN \* the renderer's exception leaves draw
                   /\ journeyMap' = self
                   /\ jmLast' = Some(JourneyDrawRecord(location, init, "renderer", FALSE, FALSE, None))
              ELSE IF self.image = None
              THEN \* line 94: None has no copy()
                   /\ journeyMap' = self
                   /\ jmLast' = Some(JourneyDrawRecord(location, init, "copy", FALSE, FALSE, None))
              ELSE LET frame == copy(Get(self.image))
                   IN  IF ~HasFix(location)
                       THEN \* line 97: rev_geocode computes with None
                            /\ journeyMap' = self
                            /\ jmLast' = Some(JourneyDrawRecord(location, init, "rev_geocode", FALSE, FALSE, None))
                       ELSE LET current == rev_geocode(Get(self.map), <<Get(location.lon), Get(location.lat)>>)
                                marked == draw_marker(frame, current, 6)
                            IN  \* drawing on frame changes self.image when both are one object
                                /\ journeyMap' = IF frame.id = Get(self.image).id
                                                 THEN [self EXCEPT !.image = Some(marked)]
                                                 ELSE self
                                /\ jmLast' = Some(JourneyDrawRecord(location, init, "", TRUE, TRUE, Some(marked)))
    /\ UNCHANGED <<mmVars, checkVars, construct, raster, workers>>

\* The positions of the routes: a zigzag through the modelled area
RoutePoints == {l \in FixedLocations : Get(l.lat) = Get(l.lon) % 2}

\* The timeseries: the routes of 1 to MaxRoute positions
Routes == UNION {[1..n -> RoutePoints] : n \in 1..MaxRoute}

PrivacyZones == SUBSET RoutePoints

\* The live positions a JourneyMap.draw reads: the positions of the routes, and positions
\* without longitude, without latitude, or without both
JourneyLocations ==
    RoutePoints \cup {l \in Locations : ~HasFix(l) /\ l.lon \in {None, Some(0)} /\ l.lat \in {None, Some(0)}}

JourneySpecInit ==
    /\ \E timeseries \in Routes, privacy_zone \in PrivacyZones :
          journeyMap = JourneyMapInit(timeseries, JourneySize, None, DefaultOpacity, privacy_zone)
    /\ jmLast = None
    /\ jmHist = [draws |-> 0, folds |-> 0, renders |-> 0]
    /\ movingMap = None /\ mmLast = None /\ mmHist = None
    /\ check = None /\ checkLast = None /\ checkHist = None
    /\ construct = None /\ raster = None /\ workers = None

JourneyMapDrawStep ==
    \E location \in JourneyLocations :
        \E rendererOk \in (IF journeyMap.map = None THEN BOOLEAN ELSE {TRUE}) :
            JourneyMapDraw(location, rendererOk)

JourneyNext == JourneyMapDrawStep

JourneySpec == JourneySpecInit /\ [][JourneyNext]_vars

---------------------------------------------------------------------------
(* The rotation and the finishing of a raster, over a grid of headings and opacities *)

\* The headings are the whole degrees of -MaxHeading..MaxHeading
MaxHeading == 359

\* The opacities are the multiples of 1/OpacityDen in [0, 1]
OpacityDen == 20

HeadingGrid == {None} \cup {Some(h) : h \in (0 - MaxHeading)..MaxHeading}

OpacityGrid == {[num |-> k, den |-> OpacityDen] : k \in 0..OpacityDen}

\* The position the rasters of this specification are made for
Origin == [lon |-> Some(0), lat |-> Some(0)]

RasterSpecInit ==
    /\ \E azimuth \in HeadingGrid, rotate \in BOOLEAN, corner_radius \in CornerRadii, opacity \in OpacityGrid :
          raster = [azimuth |-> azimuth, rotate |-> rotate, corner_radius |-> corner_radius,
                    opacity |-> opacity, op |-> "", image |-> None]
    /\ movingMap = None /\ mmLast = None /\ mmHist = None
    /\ check = None /\ checkLast = None /\ checkHist = None
    /\ journeyMap = None /\ jmLast = None /\ jmHist = None
    /\ construct = None /\ workers = None

\* MovingMap._redraw(map) of a MovingMap constructed with the arguments of raster, the
\* heading source answering raster.azimuth
RasterRedraw ==
    /\ raster' = [raster EXCEPT
          !.op = "_redraw",
          !.image = LET self == MovingMapInit(raster.rotate, DefaultSize, DefaultZoom,
                                              raster.corner_radius, raster.opacity)
                    IN  Some(Redrawn(self, renderer(MovingMapView(self, Origin)), raster.azimuth))]
    /\ UNCHANGED <<mmVars, checkVars, jmVars, construct, workers>>

\* JourneyMap._init_maybe() of a JourneyMap constructed with the arguments of raster, on a
\* route of one position
RasterInitMaybe ==
    /\ raster' = [raster EXCEPT
          !.op = "_init_maybe",
          !.image = InitMaybe(JourneyMapInit(<<Origin>>, JourneySize, raster.corner_radius,
                                             raster.opacity, NoPrivacyZone), TRUE).self.image]
    /\ UNCHANGED <<mmVars, checkVars, jmVars, construct, workers>>

RasterNext == RasterRedraw \/ RasterInitMaybe

RasterSpec == RasterSpecInit /\ [][RasterNext]_vars

---------------------------------------------------------------------------
(* Two workers drawing frames concurrently, on one MovingMap or on one each *)

\* Draws per worker
MaxWorkerDraws == 2

Workers == {1, 2}

NoFix == [lon |-> None, lat |-> None]

\* The positions the workers read: along the equator of the modelled area, or no fix
WorkerLocations == {l \in FixedLocations : l.lat = Some(0)} \cup {NoFix}

\* The headings the workers read
WorkerHeadings == {None, Some(90)}

\* The MovingMap worker i draws with: the first one when the workers share it
InstanceOf(i) == IF workers.shared THEN 1 ELSE i

WorkersSpecInit ==
    /\ \E shared \in BOOLEAN :
          workers = [shared |-> shared,
                     inst |-> [i \in Workers |-> MovingMapInit(TRUE, DefaultSize, DefaultZoom, None, DefaultOpacity)],
                     pc |-> [i \in Workers |-> "draw"],
                     location |-> [i \in Workers |-> NoFix],
                     draws |-> [i \in Workers |-> 0],
                     failed |-> FALSE,
                     last |-> None]
    /\ movingMap = None /\ mmLast = None /\ mmHist = None
    /\ check = None /\ checkLast = None /\ checkHist = None
    /\ journeyMap = None /\ jmLast = None /\ jmHist = None
    /\ construct = None /\ raster = None

\* Worker i enters draw: lines 173-179, up to the return of self.perceptible.moved. Without
\* fix the draw is over at once.
WorkerCheck(i, location) ==
    /\ workers.pc[i] = "draw"
    /\ workers.draws[i] < MaxWorkerDraws
    /\ IF HasFix(location)
       THEN LET k == InstanceOf(i)
                chk == MovingMapMoved(workers.inst[k], location)
            IN  workers' = [workers EXCEPT
                               !.inst[k].perceptible = chk.self,
                               !.location[i] = location,
                               !.pc[i] = IF chk.ret THEN "_redraw" ELSE "paste"]
       ELSE workers' = [workers EXCEPT !.draws[i] = @ + 1]
    /\ UNCHANGED <<mmVars, checkVars, jmVars, construct, raster>>

\* Worker i runs line 180, self.cached = self._redraw(map), for the view of the position it
\* read; when the renderer raises, the exception ends the draw
WorkerRedraw(i) ==
    /\ workers.pc[i] = "_redraw"
    /\ LET k == InstanceOf(i)
           self == workers.inst[k]
       IN  \E rendererOk \in BOOLEAN :
           IF rendererOk
           THEN \E azimuth \in WorkerHeadings :
                workers' = [workers EXCEPT
                               !.inst[k].cached =
                                   Some(Redrawn(self, renderer(MovingMapView(self, workers.location[i])), azimuth)),
                               !.pc[i] = "paste"]
           ELSE workers' = [workers EXCEPT
                               !.pc[i] = "draw",
                               !.location[i] = NoFix,
                               !.draws[i] = @ + 1,
                               !.failed = TRUE]
    /\ UNCHANGED <<mmVars, checkVars, jmVars, construct, raster>>

\* Worker i runs line 182, image.paste(self.cached, ...); last keeps what was pasted and the
\* position the movement check stored at that moment
WorkerPaste(i) ==
    /\ workers.pc[i] = "paste"
    /\ LET self == workers.inst[InstanceOf(i)]
       IN  workers' = [workers EXCEPT
                          !.pc[i] = "draw",
                          !.location[i] = NoFix,
                          !.draws[i] = @ + 1,
                          !.last = Some([worker |-> i, pasted |-> self.cached,
                                         stored |-> self.perceptible.last_location,
                                         zoom |-> self.zoom, hypotenuse |-> self.hypotenuse])]
    /\ UNCHANGED <<mmVars, checkVars, jmVars, construct, raster>>

WorkerCheckStep == \E i \in Workers, location \in WorkerLocations : WorkerCheck(i, location)

WorkerRedrawStep == \E i \in Workers : WorkerRedraw(i)

WorkerPasteStep == \E i \in Workers : WorkerPaste(i)

WorkersNext == WorkerCheckStep \/ WorkerRedrawStep \/ WorkerPasteStep

WorkersSpec == WorkersSpecInit /\ [][WorkersNext]_vars

---------------------------------------------------------------------------
(* Claims about PerceptibleMovementCheck and MovingMap *)

\* C1: while every MovingMap.draw so far read the same position, and that position has a
\* fix, the renderer has been called exactly once (by the first draw); every later draw
\* called no renderer and pasted the cached raster, which, unless that one renderer call
\* failed, is the raster rendered for that position.
C1_StationaryRendersOnce ==
    (mmHist.draws >= 1 /\ mmHist.same /\ HasFix(Get(mmLast).location)) =>
        /\ mmHist.renders = 1
        /\ mmHist.draws >= 2 =>
              /\ ~Get(mmLast).rendered
              /\ Get(mmLast).pasteCalled
              /\ Get(mmLast).pasted = movingMap.cached
        /\ ~mmHist.failed =>
              /\ movingMap.cached # None
              /\ Get(movingMap.cached).view = MovingMapView(movingMap, Get(mmLast).location)

\* C1 witness: MaxDraws draws of one fixed position, no renderer failure, one renderer call
C1_Witness ==
    /\ mmHist.draws = MaxDraws /\ MaxDraws >= 3
    /\ mmHist.same /\ HasFix(Get(mmLast).location)
    /\ ~mmHist.failed /\ mmHist.renders = 1
    /\ Get(mmLast).pasted = movingMap.cached /\ movingMap.cached # None

\* C2: the first ever call of moved returns True, and a call with the view and the point of
\* the call before it returns False (so the second of two such calls from a fresh check does).
C2_SecondCallNotMoved ==
    /\ checkHist.calls = 1 => Get(checkLast).ret
    /\ (checkHist.calls >= 2 /\ checkHist.repeated) => ~Get(checkLast).ret

\* C2 witness: the second call ever, with the arguments of the first, returned False
C2_Witness ==
    /\ checkHist.calls = 2 /\ checkHist.repeated
    /\ Get(checkLast).before.last_location = Some(Get(checkLast).location)
    /\ ~Get(checkLast).ret

\* C3: with a previous position stored, moved returns False exactly when both the longitude
\* and the latitude delta are strictly less than the view's resolution on that axis.
C3_StrictThreshold ==
    (checkLast # None /\ Get(checkLast).before.last_location # None) =>
        LET c == Get(checkLast)
            last == Get(c.before.last_location)
            x_diff == Abs(Get(last.lon) - Get(c.location.lon))
            y_diff == Abs(Get(last.lat) - Get(c.location.lat))
        IN  (~c.ret) <=> (x_diff < x_resolution(c.map) /\ y_diff < y_resolution(c.map))

\* C3 witness: a displacement equal to the resolution on one axis and smaller on the other
\* was classified as moved
C3_Witness ==
    /\ checkLast # None /\ Get(checkLast).before.last_location # None
    /\ LET c == Get(checkLast)
           last == Get(c.before.last_location)
       IN  /\ Abs(Get(last.lon) - Get(c.location.lon)) = x_resolution(c.map)
           /\ Abs(Get(last.lat) - Get(c.location.lat)) < y_resolution(c.map)
           /\ c.ret

\* C4: a MovingMap.draw whose position has no longitude or no latitude calls neither paste
\* nor the renderer and leaves the object (cached raster, stored position) as it was.
C4_NoFixIsNoOp ==
    [][(mmHist'.draws # mmHist.draws /\ ~HasFix(Get(mmLast').location)) =>
          /\ movingMap' = movingMap
          /\ ~Get(mmLast').pasteCalled
          /\ ~Get(mmLast').rendered
          /\ mmHist'.renders = mmHist.renders]_vars

\* C4 witness: a draw without fix after a raster was cached
C4_Witness ==
    /\ mmLast # None /\ ~HasFix(Get(mmLast).location)
    /\ Get(mmLast).location.lon = None /\ Get(mmLast).location.lat # None
    /\ movingMap.cached # None /\ ~Get(mmLast).pasteCalled

\* C7 (the claim as stated; the code violates it): a MovingMap.draw in which the renderer
\* fails leaves the cached raster and the movement check's stored position as they were.
C7_FailedRedrawKeepsState ==
    [][(mmHist'.draws # mmHist.draws /\ Get(mmLast').failed) =>
          /\ movingMap'.cached = movingMap.cached
          /\ movingMap'.perceptible = movingMap.perceptible]_vars

\* C9 (the claim as stated; the code violates it): a constructed MovingMap has
\* hypotenuse^2 >= 2 * size^2, and its bounds are the centred size x size square of the
\* hypotenuse x hypotenuse raster (bounds and half_width_height are doubled pixels).
C9_HypotenuseCoversDiagonal ==
    construct.object # None =>
        LET self == Get(construct.object)
        IN  /\ self.hypotenuse * self.hypotenuse >= 2 * self.size * self.size
            /\ self.bounds[3] - self.bounds[1] = 2 * self.size
            /\ self.bounds[4] - self.bounds[2] = 2 * self.size
            /\ self.bounds[1] + self.bounds[3] = 2 * self.hypotenuse
            /\ self.bounds[2] + self.bounds[4] = 2 * self.hypotenuse
            /\ self.bounds[1] >= 0 /\ self.bounds[3] <= 2 * self.hypotenuse

---------------------------------------------------------------------------
(* Claims about JourneyMap *)

\* C5 (the claim as stated; the code violates it): a JourneyMap.draw whose live position has
\* no longitude or no latitude, the backdrop being there, pastes the backdrop without a
\* marker and raises nothing.
C5_NoFixPastesBackdrop ==
    (jmLast # None /\ ~HasFix(Get(jmLast).location) /\ journeyMap.image # None) =>
        /\ Get(jmLast).raised = ""
        /\ Get(jmLast).pasteCalled
        /\ ~Get(jmLast).markerDrawn
        /\ Get(jmLast).pasted = Some(copy(Get(journeyMap.image)))

\* C6: after any JourneyMap.draw the timeseries has been folded once and the renderer called
\* once, both by the first draw; from the first draw on no draw changes the stored view or
\* the stored backdrop; and what a draw pastes is a copy of the backdrop (another object)
\* carrying the marker, while the stored backdrop carries none.
C6_BackdropBuiltOnce ==
    [][/\ jmHist'.draws >= 1 =>
            /\ jmHist'.folds = 1 /\ jmHist'.renders = 1
            /\ journeyMap'.map # None
       /\ (jmHist'.draws # jmHist.draws) =>
            /\ (Get(jmLast').folded \/ Get(jmLast').rendered) => jmHist.draws = 0
            /\ jmHist.draws >= 1 => journeyMap' = journeyMap
            /\ Get(jmLast').pasteCalled =>
                  LET pasted == Get(Get(jmLast').pasted)
                      image == Get(journeyMap'.image)
                  IN  /\ pasted.id # image.id
                      /\ pasted.marker # None
                      /\ image.marker = None
                      /\ [pasted EXCEPT !.marker = None, !.id = image.id] = image]_vars

\* C6 witness: a second draw pasted a marked copy of the backdrop the first draw built
C6_Witness ==
    /\ jmHist.draws = 2 /\ jmHist.folds = 1 /\ jmHist.renders = 1
    /\ Get(jmLast).pasteCalled /\ ~Get(jmLast).rendered
    /\ journeyMap.image # None /\ Get(journeyMap.image).marker = None

\* C8 (the claim as stated; the code violates it): a JourneyMap.draw in which the renderer
\* fails leaves the JourneyMap uninitialised: no view and no backdrop stored.
C8_FailedInitStaysUninitialised ==
    [][(jmHist'.draws # jmHist.draws /\ Get(jmLast').raised = "renderer") =>
          /\ journeyMap'.map = None
          /\ journeyMap'.image = None]_vars

\* The index in the route of the j-th position that the privacy zone does not enclose
NthKept(route, privacy_zone, j) ==
    CHOOSE k \in DOMAIN route :
        /\ route[k] \notin privacy_zone
        /\ Cardinality({i \in 1..k : route[i] \notin privacy_zone}) = j

\* C10: the polyline drawn on the backdrop has one pixel for every position of the route
\* that the privacy zone does not enclose and none for an enclosed one, in the order of
\* the route: its j-th pixel is the projection of the j-th position not enclosed.
C10_PrivacyFilterKeepsOrder ==
    journeyMap.image # None =>
        LET route == journeyMap.timeseries
            zone == journeyMap.privacy_zone
            line == Get(Get(journeyMap.image).line)
        IN  /\ Len(line) = Cardinality({i \in DOMAIN route : route[i] \notin zone})
            /\ \A j \in 1..Len(line) :
                  LET location == route[NthKept(route, zone, j)]
                  IN  line[j] = rev_geocode(Get(journeyMap.map), <<Get(location.lon), Get(location.lat)>>)

\* C10 witness: a route of three different positions, the middle one enclosed, drawn as the
\* two-pixel polyline of the first and the third
C10_Witness ==
    /\ journeyMap.image # None
    /\ LET route == journeyMap.timeseries
           zone == journeyMap.privacy_zone
           line == Get(Get(journeyMap.image).line)
       IN  /\ Len(route) = 3 /\ Cardinality({route[1], route[2], route[3]}) = 3
           /\ zone = {route[2]}
           /\ Len(line) = 2
           /\ line[1] # line[2]
           /\ line[1] = rev_geocode(Get(journeyMap.map), <<Get(route[1].lon), Get(route[1].lat)>>)
           /\ line[2] = rev_geocode(Get(journeyMap.map), <<Get(route[3].lon), Get(route[3].lat)>>)

---------------------------------------------------------------------------
(* Further claims about MovingMap *)

\* C11 (the claim as stated; the code does otherwise): the cached raster never carries the
\* marker, and a draw that pastes pastes a copy of it (another object) carrying the marker.
C11_CacheWithoutMarker ==
    /\ movingMap.cached # None => Get(movingMap.cached).marker = None
    /\ (mmLast # None /\ Get(mmLast).pasteCalled /\ Get(mmLast).pasted # None) =>
          /\ Get(Get(mmLast).pasted).id # Get(movingMap.cached).id
          /\ Get(Get(mmLast).pasted).marker # None

\* C11 as amended: _redraw draws the marker at the centre of the rendered raster before it
\* is rotated and cropped, so the cached raster, whenever there is one, carries the marker;
\* a draw that pastes pastes the cached raster itself, not a copy.
C11_CacheCarriesMarker ==
    /\ movingMap.cached # None =>
          Get(movingMap.cached).marker =
              Some([at |-> <<movingMap.half_width_height, movingMap.half_width_height>>, size |-> 6])
    /\ (mmLast # None /\ Get(mmLast).pasteCalled) => Get(mmLast).pasted = movingMap.cached

\* C11 witness: a cache hit pasted the cached raster, marker included
C11_Witness ==
    /\ mmLast # None /\ Get(mmLast).pasteCalled /\ ~Get(mmLast).rendered
    /\ Get(mmLast).pasted # None /\ Get(mmLast).pasted = movingMap.cached
    /\ Get(movingMap.cached).marker # None

\* C16 (the claim as stated; the code does otherwise): the renderer and the heading source
\* are both consulted exactly in the draws whose movement check reports "moved", and a draw
\* that did not move pastes the cached raster unchanged.
C16_HeadingReadIffMoved ==
    mmLast # None =>
        /\ Get(mmLast).rendered <=> Get(mmLast).moved
        /\ Get(mmLast).azimuthRead <=> Get(mmLast).moved
        /\ (Get(mmLast).checked /\ ~Get(mmLast).moved) => Get(mmLast).pasted = movingMap.cached

\* C16 as amended: the renderer is consulted exactly in the draws whose movement check
\* reports "moved"; the heading source is consulted exactly in those of them in which the
\* renderer returned (a raising renderer leaves draw before line 140); a draw that did not
\* move leaves the cached raster as it was and pastes it.
C16_RedrawOnlyWhenMoved ==
    [][mmHist'.draws # mmHist.draws =>
          /\ Get(mmLast').rendered <=> Get(mmLast').moved
          /\ Get(mmLast').azimuthRead <=> (Get(mmLast').moved /\ ~Get(mmLast').failed)
          /\ (Get(mmLast').checked /\ ~Get(mmLast').moved) =>
                /\ movingMap'.cached = movingMap.cached
                /\ Get(mmLast').pasteCalled
                /\ Get(mmLast').pasted = movingMap.cached]_vars

\* C16 witness: a draw at another position than the stored one did not move and pasted the
\* cached raster, rotated at the last redraw
C16_Witness ==
    /\ mmLast # None /\ Get(mmLast).checked /\ ~Get(mmLast).moved
    /\ ~Get(mmLast).rendered /\ ~Get(mmLast).azimuthRead
    /\ movingMap.perceptible.last_location # Some(Get(mmLast).location)
    /\ Get(mmLast).pasted # None /\ Get(mmLast).pasted = movingMap.cached
    /\ Get(movingMap.cached).angle # None

\* C18: as long as the renderer has not failed, a draw that pastes pastes a present raster,
\* the one rendered for the view centred on the movement check's stored position, and the
\* position of the draw is strictly within one pixel of the current view, on both axes, of
\* that stored position.
C18_PastedRasterIsForStoredPosition ==
    (mmLast # None /\ Get(mmLast).pasteCalled /\ ~mmHist.failed) =>
        /\ Get(mmLast).pasted # None
        /\ movingMap.perceptible.last_location # None
        /\ Get(Get(mmLast).pasted).view =
               MovingMapView(movingMap, Get(movingMap.perceptible.last_location))
        /\ Abs(Get(Get(mmLast).location.lon) - Get(Get(movingMap.perceptible.last_location).lon))
               < x_resolution(MovingMapView(movingMap, Get(mmLast).location))
        /\ Abs(Get(Get(mmLast).location.lat) - Get(Get(movingMap.perceptible.last_location).lat))
               < y_resolution(MovingMapView(movingMap, Get(mmLast).location))

\* C18 witness: after three draws without failure, two of them redraws, the last one
\* pasted the raster of the stored position from another position
C18_Witness ==
    /\ mmLast # None /\ Get(mmLast).pasteCalled /\ ~mmHist.failed
    /\ mmHist.draws = MaxDraws /\ mmHist.renders = 2
    /\ ~Get(mmLast).moved
    /\ movingMap.perceptible.last_location # Some(Get(mmLast).location)
    /\ Get(mmLast).pasted # None
    /\ Get(Get(mmLast).pasted).view =
           MovingMapView(movingMap, Get(movingMap.perceptible.last_location))

---------------------------------------------------------------------------
(* Further claims about PerceptibleMovementCheck *)

\* C15: a call of moved that returns False leaves the object as it was and a call that
\* returns True stores the position it was given, so the stored position is always the
\* position of the latest call that returned True (not of the latest call), and a call is
\* accepted exactly when its displacement from that position reaches the resolution on
\* either axis.
C15_StoresAcceptedPositionOnly ==
    /\ check.last_location = checkHist.accepted
    /\ checkLast # None =>
          /\ Get(checkLast).ret => check.last_location = Some(Get(checkLast).location)
          /\ ~Get(checkLast).ret => check = Get(checkLast).before
    /\ (checkLast # None /\ Get(checkLast).before.last_location # None) =>
          LET c == Get(checkLast)
              last == Get(c.before.last_location)
          IN  c.ret <=> \/ Abs(Get(last.lon) - Get(c.location.lon)) >= x_resolution(c.map)
                        \/ Abs(Get(last.lat) - Get(c.location.lat)) >= y_resolution(c.map)

\* C15 witness: after an accepted and a rejected call, a third call within the resolution
\* of the rejected position is accepted, its displacement being counted from the accepted one
C15_Witness ==
    /\ checkHist.calls = 3 /\ checkHist.crept
    /\ Get(checkLast).before.last_location # None
    /\ Get(checkLast).ret
    /\ check.last_location = Some(Get(checkLast).location)

---------------------------------------------------------------------------
(* Further claims about JourneyMap *)

\* The view geotiler computes for the route of journeyMap, before the clamp of lines 58-59
UnclampedJourneyView ==
    MapOfExtent(<<Get(JourneyOf(journeyMap.timeseries).bounding_box[1].lon),
                  Get(JourneyOf(journeyMap.timeseries).bounding_box[1].lat),
                  Get(JourneyOf(journeyMap.timeseries).bounding_box[2].lon),
                  Get(JourneyOf(journeyMap.timeseries).bounding_box[2].lat)>>,
                <<journeyMap.size, journeyMap.size>>)

\* C17: the stored view of an initialised JourneyMap has a zoom of at most 18; the backdrop
\* was rendered for that stored view, its polyline is the projection of the kept route
\* positions through it, and the marker of every draw is projected through it.
C17_OneClampedView ==
    /\ journeyMap.map # None =>
          /\ Get(journeyMap.map).zoom <= 18
          /\ Get(journeyMap.map) = [UnclampedJourneyView EXCEPT !.zoom = Min({UnclampedJourneyView.zoom, 18})]
    /\ journeyMap.image # None =>
          /\ Get(journeyMap.image).view = Get(journeyMap.map)
          /\ Get(journeyMap.image).line =
                Some(Plots(Get(journeyMap.map), JourneyOf(journeyMap.timeseries).locations,
                           journeyMap.privacy_zone))
    /\ (jmLast # None /\ Get(jmLast).markerDrawn) =>
          /\ Get(Get(jmLast).pasted).view = Get(journeyMap.map)
          /\ Get(Get(jmLast).pasted).line = Get(journeyMap.image).line
          /\ Get(Get(jmLast).pasted).marker =
                Some([at |-> rev_geocode(Get(journeyMap.map),
                                         <<Get(Get(jmLast).location.lon), Get(Get(jmLast).location.lat)>>),
                      size |-> 6])

\* C17 witness: a route that fits at a zoom above 18 was drawn twice through the view
\* clamped to 18, the second time reusing the stored view
C17_Witness ==
    /\ UnclampedJourneyView.zoom > 18
    /\ journeyMap.map # None /\ Get(journeyMap.map).zoom = 18
    /\ journeyMap.image # None /\ Get(journeyMap.image).line # None
    /\ jmLast # None /\ Get(jmLast).markerDrawn /\ ~Get(jmLast).folded
    /\ Get(Get(jmLast).pasted).view.zoom = 18

---------------------------------------------------------------------------
(* Claims about the rotation and the finishing of a raster *)

\* The angle a raster is rotated by; a raster that rotate() was not called on is at 0
RotationOf(image) == IF image.angle = None THEN 0 ELSE Get(image.angle)

\* C12: a redraw with rotation enabled and a heading h in (-360, 360) rotates the raster
\* by h when h >= 0 and by h + 360 when h < 0, an angle in [0, 360); with rotation
\* disabled or without heading the raster is not rotated.
C12_AngleNormalised ==
    raster.op = "_redraw" =>
        /\ (raster.rotate /\ raster.azimuth # None /\ Get(raster.azimuth) > -360 /\ Get(raster.azimuth) < 360) =>
              /\ RotationOf(Get(raster.image)) =
                    IF Get(raster.azimuth) >= 0 THEN Get(raster.azimuth) ELSE Get(raster.azimuth) + 360
              /\ RotationOf(Get(raster.image)) >= 0
              /\ RotationOf(Get(raster.image)) < 360
        /\ (~raster.rotate \/ raster.azimuth = None) => Get(raster.image).angle = None

\* C12 witness: a heading of -10 degrees gave a rotation by 350
C12_Witness ==
    /\ raster.op = "_redraw" /\ raster.rotate /\ raster.azimuth = Some(-10)
    /\ Get(raster.image).angle = Some(350)

\* C14 (the claim as stated; the code does otherwise): without corner radius the alpha of
\* the finished raster is everywhere round(255 * opacity), an integer nearest to it.
C14_AlphaIsRounded ==
    (raster.image # None /\ raster.corner_radius = None) =>
        /\ Get(raster.image).alpha # None
        /\ Get(Get(raster.image).alpha).inside = Get(Get(raster.image).alpha).corners
        /\ 2 * Abs(Get(Get(raster.image).alpha).inside * raster.opacity.den - 255 * raster.opacity.num)
              <= raster.opacity.den

\* C14 as amended: without corner radius the alpha of the finished raster, of _redraw and
\* of _init_maybe alike, is everywhere int(255 * opacity): 255 * opacity truncated, the
\* largest integer not above it.
C14_AlphaIsTruncated ==
    (raster.image # None /\ raster.corner_radius = None) =>
        /\ Get(raster.image).alpha # None
        /\ Get(Get(raster.image).alpha).inside = Get(Get(raster.image).alpha).corners
        /\ Get(Get(raster.image).alpha).inside * raster.opacity.den <= 255 * raster.opacity.num
        /\ (Get(Get(raster.image).alpha).inside + 1) * raster.opacity.den > 255 * raster.opacity.num

\* C14 witness: a backdrop finished with an opacity whose 255-fold has a fractional part
\* above one half, so that truncating and rounding differ
C14_Witness ==
    /\ raster.op = "_init_maybe" /\ raster.corner_radius = None
    /\ Get(Get(raster.image).alpha).inside = Get(Get(raster.image).alpha).corners
    /\ 2 * (255 * raster.opacity.num - Get(Get(raster.image).alpha).inside * raster.opacity.den)
          > raster.opacity.den

---------------------------------------------------------------------------
(* Claims about concurrent use *)

\* The latest paste pasted no raster, or a raster that was not rendered for the view of
\* the position the movement check stored
IncoherentPaste ==
    /\ workers.last # None
    /\ \/ Get(workers.last).pasted = None
       \/ Get(Get(workers.last).pasted).view #
              MapOfCenter(<<Get(Get(Get(workers.last).stored).lon), Get(Get(Get(workers.last).stored).lat)>>,
                          Get(workers.last).zoom,
                          <<Get(workers.last).hypotenuse, Get(workers.last).hypotenuse>>)

\* C13 (the claim as stated; the code violates its second half): when each worker draws
\* with a MovingMap of its own, no paste pastes an absent raster or a raster that was not
\* rendered for the stored position of its MovingMap.
C13_OwnInstancesStayCoherent == ~workers.shared => ~IncoherentPaste

\* C13 witness (the first half of the claim): on a shared MovingMap, without any failure
\* of the renderer, a paste pasted an absent raster or one not rendered for the stored position
C13_Witness == workers.shared /\ ~workers.failed /\ IncoherentPaste

=============================================================================
